---- MODULE Spec2Model ----
(***************************************************************************)
(* Model of public/js/map/drawing.js: the draw-event state machine of      *)
(* initializeDrawing and the analysis computed by performAnalysis.         *)
(*                                                                         *)
(* Geometry is kept on a small integer grid.  A WGS84 position is a pair   *)
(* (lat, lng) of small integers; Leaflet's distanceTo is the planar        *)
(* distance on that grid (compared squared), and Circle.getBounds is the   *)
(* box centre +/- radius.  poptot and plasser are integers; the value 0    *)
(* stands for every falsy value (missing, null, 0, NaN) because the code   *)
(* only tests them with the ! operator.                                    *)
(***************************************************************************)
EXTENDS Integers, Sequences, FiniteSets, TLC

\* ------------------------------------------------------------------ bounds
\* the number of records of both datasets together: in the sessions of
\* SpecAnalysis, and in the sessions of Spec
MaxRecords == 3
MaxDraw == 2

\* ------------------------------------------------------- raw coordinates
\* A raw coordinate as found in geom.coordinates: k = "num" is a pair of
\* finite numbers [x, y]; "null" is a null entry; "inf" is [Infinity, y];
\* "nan" is [NaN, y].
num(x, y) == [k |-> "num", x |-> x, y |-> y]
nullCoord == [k |-> "null", x |-> 0, y |-> 0]
infCoord(y) == [k |-> "inf", x |-> 0, y |-> y]
nanCoord(y) == [k |-> "nan", x |-> 0, y |-> y]

\* A converted vertex [lat, lng]; k = "nan" when a component is NaN,
\* k = "dropped" for the null the map callback returns after a failure.
latlng(lat, lng) == [k |-> "num", lat |-> lat, lng |-> lng]
nanLatLng == [k |-> "nan", lat |-> 0, lng |-> 0]
dropped == [k |-> "dropped", lat |-> 0, lng |-> 0]

\* config.js convertUTMToWGS84(easting, northing): returns [lng, lat], or
\* fails on a coordinate that is not finite.  The inverse projection is an
\* affine map of the grid (false easting 200, false northing 100).
convertUTMToWGS84(coord) ==
    IF coord.k # "num"
    THEN [ok |-> FALSE, lng |-> 0, lat |-> 0]
    ELSE [ok |-> TRUE, lng |-> coord.x - 200, lat |-> coord.y - 100]

\* The test `coord[0] > 180 || coord[1] > 90`; a comparison with NaN is false.
isUTM(coord) ==
    \/ coord.k = "inf"
    \/ coord.k = "num" /\ coord.x > 180
    \/ coord.y > 90

\* The callback of coords.map in performAnalysis, its try/catch included.
convertCoord(coord) ==
    IF coord.k = "null" THEN dropped
    ELSE IF isUTM(coord)
         THEN LET wgs84 == convertUTMToWGS84(coord)
              IN  IF wgs84.ok THEN latlng(wgs84.lat, wgs84.lng) ELSE dropped
         ELSE IF coord.k = "nan" THEN nanLatLng
              ELSE latlng(coord.y, coord.x)

RECURSIVE mapConvert(_)
mapConvert(coords) ==
    IF coords = <<>> THEN <<>>
    ELSE <<convertCoord(Head(coords))>> \o mapConvert(Tail(coords))

notNull(c) == c.k # "dropped"

\* coords.map(...).filter(coord => coord !== null)
convertedCoords(coords) == SelectSeq(mapConvert(coords), notNull)

\* --------------------------------------------------------------- Leaflet
Min(a, b) == IF a <= b THEN a ELSE b
Max(a, b) == IF a >= b THEN a ELSE b

RECURSIVE boundsOf(_)
\* L.polygon(ring).getBounds() of a ring of at least one vertex
boundsOf(ring) ==
    LET h == Head(ring) IN
    IF Len(ring) = 1
    THEN [s |-> h.lat, w |-> h.lng, n |-> h.lat, e |-> h.lng]
    ELSE LET b == boundsOf(Tail(ring))
         IN  [s |-> Min(h.lat, b.s), w |-> Min(h.lng, b.w),
              n |-> Max(h.lat, b.n), e |-> Max(h.lng, b.e)]

\* LatLngBounds.intersects
intersects(a, b) ==
    /\ b.n >= a.s /\ b.s <= a.n
    /\ b.e >= a.w /\ b.w <= a.e

\* LatLngBounds.contains(latlng)
contains(b, p) ==
    /\ b.s <= p.lat /\ p.lat <= b.n
    /\ b.w <= p.lng /\ p.lng <= b.e

\* point.distanceTo(shapeCenter) <= shapeRadius
withinRadius(p, center, radius) ==
    (p.lat - center.lat) * (p.lat - center.lat)
      + (p.lng - center.lng) * (p.lng - center.lng) <= radius * radius

\* new LatLng throws on a NaN component; L.polygon converts every vertex
polygonThrows(ring) == \E i \in 1..Len(ring) : ring[i].k = "nan"

\* ---------------------------------------------------------------- shapes
circle(lat, lng, r) ==
    [type |-> "circle", center |-> latlng(lat, lng), radius |-> r,
     bounds |-> [s |-> lat - r, w |-> lng - r, n |-> lat + r, e |-> lng + r]]
bounded(t, s, w, n, e) ==
    [type |-> t, center |-> latlng(0, 0), radius |-> 0,
     bounds |-> [s |-> s, w |-> w, n |-> n, e |-> e]]
NoLayer == bounded("none", 0, 0, 0, 0)

Layers ==
    { circle(2, 2, 1),
      circle(0, 1, 1),
      bounded("rectangle", 0, 0, 1, 1),
      bounded("polygon", 1, 1, 3, 3) }

\* --------------------------------------------------------------- records
\* A population record.  isNull: the array entry itself is null/undefined.
\* geom: "missing" (no geom), "nocoords" (geom without coordinates),
\* "notarray" (coordinates[0] is truthy but no array, as in a Point),
\* "ring" (coordinates[0] is the array `ring`).
area(geom, ring, poptot) ==
    [isNull |-> FALSE, geom |-> geom, ring |-> ring, poptot |-> poptot]
nullArea == [isNull |-> TRUE, geom |-> "missing", ring |-> <<>>, poptot |-> 0]

\* A shelter record; geom "missing", "nocoords" or "point" (coordinates = at).
bunker(geom, at, plasser) ==
    [isNull |-> FALSE, geom |-> geom, at |-> at, plasser |-> plasser]
nullBunker ==
    [isNull |-> TRUE, geom |-> "missing", at |-> nullCoord, plasser |-> 0]

triangle == <<num(2, 2), num(3, 2), num(2, 3)>>

Areas ==
    { nullArea,
      area("missing", <<>>, 5),
      area("ring", triangle, 0),
      area("ring", triangle, 3),
      area("ring", <<num(200, 100), infCoord(100), num(201, 100), num(200, 101)>>, 2),
      area("ring", <<num(0, 0), num(4, 0), num(0, 4)>>, 7),
      area("ring", <<num(2, 2), nullCoord, num(2, 3)>>, 4),
      area("ring", <<num(2, 2), num(3, 2), nanCoord(2)>>, 1),
      area("notarray", <<>>, 1) }

Bunkers ==
    { nullBunker,
      bunker("missing", nullCoord, 3),
      bunker("point", num(202, 102), 0),
      bunker("point", num(202, 102), 4),
      bunker("point", num(201, 101), 1),
      bunker("point", infCoord(100), 2) }

\* window.populationData / window.bunkerData: undefined, or an array
absent == [defined |-> FALSE, items |-> <<>>]
array(items) == [defined |-> TRUE, items |-> items]

\* ------------------------------------------------------ performAnalysis
\* isIntersecting without the vertex test of the circle branch
isIntersecting_boundsOnly(shape, ring) == intersects(boundsOf(ring), shape.bounds)

\* Whether the converted ring of a population area intersects the shape.
isIntersecting(shape, ring) ==
    IF shape.type = "circle"
    THEN /\ intersects(boundsOf(ring), shape.bounds)
         /\ \E i \in 1..Len(ring) : withinRadius(ring[i], shape.center, shape.radius)
    ELSE intersects(boundsOf(ring), shape.bounds)

\* Whether a converted shelter position is inside the shape.
isInside(shape, p) ==
    IF shape.type = "circle"
    THEN withinRadius(p, shape.center, shape.radius)
    ELSE IF shape.type = "rectangle" \/ shape.type = "polygon"
         THEN contains(shape.bounds, p)
         ELSE FALSE

popStart ==
    [totalPopulation |-> 0, areasIntersected |-> 0, areasProcessed |-> 0,
     areasWithErrors |-> 0, raised |-> FALSE]

\* popStep with areasProcessed++ placed after the presence check
popStep_countAfterCheck(acc, a, shape) ==
    LET acc1 == [acc EXCEPT !.areasProcessed = @ + 1] IN
    IF a.isNull THEN [acc EXCEPT !.raised = TRUE]
    ELSE IF a.geom = "missing" \/ a.geom = "nocoords" \/ a.poptot = 0 THEN acc
    ELSE IF a.geom # "ring" THEN acc1
    ELSE LET cc == convertedCoords(a.ring) IN
         IF Len(cc) < 3 THEN acc1
         ELSE IF polygonThrows(cc)
              THEN [acc1 EXCEPT !.areasWithErrors = @ + 1]
              ELSE IF isIntersecting(shape, cc)
                   THEN [acc1 EXCEPT !.areasIntersected = @ + 1,
                                     !.totalPopulation = @ + a.poptot]
                   ELSE acc1

\* popStep with `totalPopulation = area.poptot` for `+=`
popStep_assigns(acc, a, shape) ==
    LET acc1 == [acc EXCEPT !.areasProcessed = @ + 1] IN
    IF a.isNull THEN [acc1 EXCEPT !.raised = TRUE]
    ELSE IF a.geom = "missing" \/ a.geom = "nocoords" \/ a.poptot = 0 THEN acc1
    ELSE IF a.geom # "ring" THEN acc1
    ELSE LET cc == convertedCoords(a.ring) IN
         IF Len(cc) < 3 THEN acc1
         ELSE IF polygonThrows(cc)
              THEN [acc1 EXCEPT !.areasWithErrors = @ + 1]
              ELSE IF isIntersecting(shape, cc)
                   THEN [acc1 EXCEPT !.areasIntersected = @ + 1,
                                     !.totalPopulation = a.poptot]
                   ELSE acc1

\* One call of the populationData.forEach callback.  raised: the callback
\* threw outside its try block, which ends forEach and performAnalysis.
popStep(acc, a, shape) ==
    LET acc1 == [acc EXCEPT !.areasProcessed = @ + 1] IN
    IF a.isNull THEN [acc1 EXCEPT !.raised = TRUE]
    ELSE IF a.geom = "missing" \/ a.geom = "nocoords" \/ a.poptot = 0 THEN acc1
    ELSE IF a.geom # "ring" THEN acc1
    ELSE LET cc == convertedCoords(a.ring) IN
         IF Len(cc) < 3 THEN acc1
         ELSE IF polygonThrows(cc)
              THEN [acc1 EXCEPT !.areasWithErrors = @ + 1]
              ELSE IF isIntersecting(shape, cc)
                   THEN [acc1 EXCEPT !.areasIntersected = @ + 1,
                                     !.totalPopulation = @ + a.poptot]
                   ELSE acc1

RECURSIVE popTrace(_, _, _)
\* The values of the population counters before the first callback and
\* after each callback that ran (none runs after one that raised).
popTrace(acc, items, shape) ==
    IF items = <<>> \/ acc.raised THEN <<acc>>
    ELSE <<acc>> \o popTrace(popStep(acc, Head(items), shape), Tail(items), shape)

bunkStart == [totalShelterCapacity |-> 0, bunkersInside |-> 0, raised |-> FALSE]

\* One call of the bunkerData.forEach callback.
bunkStep(acc, b, shape) ==
    IF b.isNull THEN [acc EXCEPT !.raised = TRUE]
    ELSE IF b.geom = "missing" \/ b.geom = "nocoords" \/ b.plasser = 0 THEN acc
    ELSE LET wgs84Coords == convertUTMToWGS84(b.at) IN
         IF ~wgs84Coords.ok THEN acc
         ELSE IF isInside(shape, latlng(wgs84Coords.lat, wgs84Coords.lng))
              THEN [acc EXCEPT !.bunkersInside = @ + 1,
                               !.totalShelterCapacity = @ + b.plasser]
              ELSE acc

RECURSIVE bunkTrace(_, _, _)
bunkTrace(acc, items, shape) ==
    IF items = <<>> \/ acc.raised THEN <<acc>>
    ELSE <<acc>> \o bunkTrace(bunkStep(acc, Head(items), shape), Tail(items), shape)

Last(s) == s[Len(s)]

\* coveragePercentage clamped to 100
coveragePercentage_clamped(totalShelterCapacity, totalPopulation) ==
    IF totalPopulation > 0
    THEN [num |-> Min(totalShelterCapacity, totalPopulation) * 100,
          den |-> totalPopulation]
    ELSE [num |-> 0, den |-> 1]

\* The coverage percentage as the exact fraction num/den (den > 0).
coveragePercentage(totalShelterCapacity, totalPopulation) ==
    IF totalPopulation > 0
    THEN [num |-> totalShelterCapacity * 100, den |-> totalPopulation]
    ELSE [num |-> 0, den |-> 1]

\* The run of performAnalysis(drawnShape, populationData, bunkerData): the
\* counter traces of both passes, the coverage, and whether it raised.
performAnalysis(drawnShape, populationData, bunkerData) ==
    LET pt == popTrace(popStart, populationData.items, drawnShape)
        bt == IF Last(pt).raised THEN <<bunkStart>>
              ELSE bunkTrace(bunkStart, bunkerData.items, drawnShape)
    IN  [ran |-> TRUE, shape |-> drawnShape, pop |-> pt, bunk |-> bt,
         coverage |-> coveragePercentage(Last(bt).totalShelterCapacity,
                                         Last(pt).totalPopulation),
         raised |-> Last(pt).raised \/ Last(bt).raised]

notRun ==
    [ran |-> FALSE, shape |-> NoLayer, pop |-> <<popStart>>, bunk |-> <<bunkStart>>,
     coverage |-> [num |-> 0, den |-> 1], raised |-> FALSE]

\* ------------------------------------------------------------------ DOM
\* coverage.toFixed(2), in hundredths of a percent
toFixed2(c) == (2 * 100 * c.num + c.den) \div (2 * c.den)

coverageColor(c) ==
    IF c.num < 33 * c.den THEN "#d32f2f"
    ELSE IF c.num < 66 * c.den THEN "#f57c00"
         ELSE "#388e3c"

\* The elements the module writes: the text of #analysis-info,
\* #population-count, #shelter-capacity and #coverage-percentage, the colour
\* of #coverage-percentage and the display style of #analysis-results.
initialPage ==
    [analysisInfo |-> "prompt", populationCount |-> 0, shelterCapacity |-> 0,
     coverageText |-> 0, color |-> "", display |-> "none"]

updateAnalysisResults(page, population, capacity, coverage) ==
    [analysisInfo |-> "results", populationCount |-> population,
     shelterCapacity |-> capacity, coverageText |-> toFixed2(coverage),
     color |-> coverageColor(coverage), display |-> "block"]

\* clearAnalysisResults that resets the text and leaves the panel shown
clearAnalysisResults_keepsPanel(page) == [page EXCEPT !.analysisInfo = "prompt"]

clearAnalysisResults(page) ==
    [page EXCEPT !.analysisInfo = "prompt", !.display = "none"]

\* clearLayers that removes nothing
clearLayers_keeps(group) == group

\* L.FeatureGroup: clearLayers, addLayer
clearLayers(group) == {}
addLayer(group, layer) == group \cup {layer}

\* ---------------------------------------------------------------- state
VARIABLES
    populationData,     \* window.populationData
    bunkerData,         \* window.bunkerData
    drawnItems,         \* the layers of the drawnItems feature group
    currentDrawnShape,  \* the closure variable of initializeDrawing
    page,               \* the DOM elements written by the module
    run,                \* the last run of performAnalysis (what it logs)
    lastEvent           \* the last event handled, and what its handler did

vars == <<populationData, bunkerData, drawnItems, currentDrawnShape, page,
          run, lastEvent>>

event(type, layer, replaced, outcome) ==
    [type |-> type, layer |-> layer, replaced |-> replaced, outcome |-> outcome]

InitHandlers ==
    /\ drawnItems = {}
    /\ currentDrawnShape = NoLayer
    /\ page = initialPage
    /\ run = notRun
    /\ lastEvent = event("none", NoLayer, FALSE, "none")

\* window.populationData is an array of n records, window.bunkerData absent
\* or an array of m records
PopulationLoaded(n) == \E items \in [1..n -> Areas] : populationData = array(items)
BunkersLoaded(m) == \E items \in [1..m -> Bunkers] : bunkerData = array(items)
Loaded(n, m) == PopulationLoaded(n) /\ BunkersLoaded(m)

\* The session after initializeDrawing, with datasets of at most MaxDraw
\* records together, either of which may not have been loaded.
Init ==
    /\ InitHandlers
    /\ \/ \E n \in 0..MaxDraw : \E m \in 0..(MaxDraw - n) : Loaded(n, m)
       \/ \E n \in 0..MaxDraw : PopulationLoaded(n) /\ bunkerData = absent
       \/ \E m \in 0..MaxDraw : populationData = absent /\ BunkersLoaded(m)
       \/ populationData = absent /\ bunkerData = absent

\* The session with both datasets loaded, of at most MaxRecords records
\* together.
InitAnalysis ==
    /\ InitHandlers
    /\ \E n \in 0..MaxRecords : \E m \in 0..(MaxRecords - n) : Loaded(n, m)

\* `if (window.populationData && window.bunkerData) performAnalysis(...)`:
\* the run, the page it leaves and the outcome of the handler.
analyse(layer) ==
    IF populationData.defined /\ bunkerData.defined
    THEN LET r == performAnalysis(layer, populationData, bunkerData) IN
         IF r.raised
         THEN [run |-> r, page |-> page, outcome |-> "raised"]
         ELSE [run |-> r,
               page |-> updateAnalysisResults(page, Last(r.pop).totalPopulation,
                                              Last(r.bunk).totalShelterCapacity,
                                              r.coverage),
               outcome |-> "displayed"]
    ELSE [run |-> run, page |-> page, outcome |-> "skipped"]

\* map.on(L.Draw.Event.CREATED, ...)
Created(layer) ==
    LET a == analyse(layer) IN
    /\ drawnItems' = addLayer(clearLayers(drawnItems), layer)
    /\ currentDrawnShape' = layer
    /\ run' = a.run
    /\ page' = a.page
    /\ lastEvent' = event("created", layer, drawnItems # {}, a.outcome)
    /\ UNCHANGED <<populationData, bunkerData>>

\* map.on(L.Draw.Event.EDITED, ...) after the edit toolbar saved: the layer
\* of the group has the geometry `edited` (same kind of shape) and is the
\* one layer of event.layers.
Edited(old, edited) ==
    LET a == analyse(edited) IN
    /\ old \in drawnItems
    /\ edited.type = old.type
    /\ drawnItems' = (drawnItems \ {old}) \cup {edited}
    /\ currentDrawnShape' = edited
    /\ run' = a.run
    /\ page' = a.page
    /\ lastEvent' = event("edited", edited, FALSE, a.outcome)
    /\ UNCHANGED <<populationData, bunkerData>>

\* The EDITED event of a save without any edited layer: eachLayer runs
\* the callback for no layer.
EditedNone ==
    /\ drawnItems # {}
    /\ lastEvent' = event("edited", NoLayer, FALSE, "none")
    /\ UNCHANGED <<populationData, bunkerData, drawnItems, currentDrawnShape,
                   page, run>>

\* map.on(L.Draw.Event.DELETED, ...) after the delete toolbar saved: it has
\* removed the layers `removed` from the group (possibly none of them).
Deleted(removed) ==
    /\ drawnItems # {}
    /\ removed \subseteq drawnItems
    /\ drawnItems' = drawnItems \ removed
    /\ currentDrawnShape' = NoLayer
    /\ page' = clearAnalysisResults(page)
    /\ lastEvent' = event("deleted", NoLayer, FALSE, "cleared")
    /\ UNCHANGED <<populationData, bunkerData, run>>

\* The click handler of #clear-analysis
ClearClick ==
    /\ drawnItems' = clearLayers(drawnItems)
    /\ currentDrawnShape' = NoLayer
    /\ page' = clearAnalysisResults(page)
    /\ lastEvent' = event("clear", NoLayer, FALSE, "cleared")
    /\ UNCHANGED <<populationData, bunkerData, run>>

Next ==
    \/ \E layer \in Layers : Created(layer)
    \/ \E old \in Layers, edited \in Layers : Edited(old, edited)
    \/ EditedNone
    \/ \E removed \in SUBSET Layers : Deleted(removed)
    \/ ClearClick

Spec == Init /\ [][Next]_vars

\* The sessions in which one shape is drawn: one call of performAnalysis
\* on the loaded datasets.
NextAnalysis == \E layer \in Layers : drawnItems = {} /\ Created(layer)

SpecAnalysis == InitAnalysis /\ [][NextAnalysis]_vars

\* ================================================================ claims
popFinal == Last(run.pop)
bunkFinal == Last(run.bunk)
completed == run.ran /\ ~run.raised

\* The callbacks of the population pass that ran in the last run
popCalls == 1..(Len(run.pop) - 1)
popRecord(i) == populationData.items[i]

missingData(a) ==
    ~a.isNull /\ (a.geom = "missing" \/ a.geom = "nocoords" \/ a.poptot = 0)

shortRing(a) ==
    /\ ~a.isNull /\ a.geom = "ring" /\ a.poptot # 0
    /\ Len(convertedCoords(a.ring)) < 3

\* C1: performAnalysis never raises: with both datasets loaded, whatever
\* malformed records they hold, every shape-created event ends with a
\* complete result handed to the display.
C1_NeverRaises ==
    lastEvent.type = "created" =>
        /\ lastEvent.outcome = "displayed"
        /\ Len(run.pop) = Len(populationData.items) + 1
        /\ Len(run.bunk) = Len(bunkerData.items) + 1

\* C2: after every shape-created and shape-edited event whose handler did
\* not raise, the page shows the result recomputed for that event's shape,
\* also when a dataset is absent or empty (zero total for that side).
C2_Recomputed ==
    ( /\ lastEvent.type \in {"created", "edited"}
      /\ lastEvent.layer # NoLayer
      /\ lastEvent.outcome # "raised" ) =>
        LET r == performAnalysis(lastEvent.layer, populationData, bunkerData) IN
        /\ run = r
        /\ page.display = "block"
        /\ page.analysisInfo = "results"
        /\ page.populationCount = Last(r.pop).totalPopulation
        /\ page.shelterCapacity = Last(r.bunk).totalShelterCapacity
        /\ page.coverageText = toFixed2(r.coverage)

\* C3: after a shape-deleted event and after the clear-analysis button no
\* current shape is held and the results panel is hidden behind the neutral
\* prompt, whatever was drawn and analysed before.
C3_Cleared ==
    lastEvent.type \in {"deleted", "clear"} =>
        /\ currentDrawnShape = NoLayer
        /\ page.display = "none"
        /\ page.analysisInfo = "prompt"
        /\ lastEvent.type = "clear" => drawnItems = {}

C3_Witness ==
    /\ lastEvent.type = "deleted"
    /\ completed
    /\ popFinal.totalPopulation > 0
    /\ page.populationCount = popFinal.totalPopulation

\* C4: the drawn-items group never holds more than one layer, and after a
\* shape-created event it holds exactly the new layer, which is the
\* current shape.
C4_AtMostOne ==
    /\ Cardinality(drawnItems) <= 1
    /\ lastEvent.type = "created" =>
          /\ drawnItems = {lastEvent.layer}
          /\ currentDrawnShape = lastEvent.layer

C4_Witness ==
    /\ lastEvent.type = "created"
    /\ lastEvent.replaced
    /\ drawnItems = {lastEvent.layer}

\* C5 as claimed: a population record missing its geometry or its poptot
\* changes none of totalPopulation, areasIntersected, areasProcessed and
\* areasWithErrors.
C5_NotProcessed ==
    run.ran =>
        \A i \in popCalls : missingData(popRecord(i)) =>
            /\ run.pop[i + 1].totalPopulation = run.pop[i].totalPopulation
            /\ run.pop[i + 1].areasIntersected = run.pop[i].areasIntersected
            /\ run.pop[i + 1].areasWithErrors = run.pop[i].areasWithErrors
            /\ run.pop[i + 1].areasProcessed = run.pop[i].areasProcessed

\* C5 amended: a population record missing its geometry or its poptot
\* leaves totalPopulation, areasIntersected and areasWithErrors unchanged
\* and is counted once in areasProcessed.
C5_SkippedButCounted ==
    run.ran =>
        \A i \in popCalls : missingData(popRecord(i)) =>
            /\ run.pop[i + 1].totalPopulation = run.pop[i].totalPopulation
            /\ run.pop[i + 1].areasIntersected = run.pop[i].areasIntersected
            /\ run.pop[i + 1].areasWithErrors = run.pop[i].areasWithErrors
            /\ run.pop[i + 1].areasProcessed = run.pop[i].areasProcessed + 1

C5_Witness ==
    /\ completed
    /\ \E i \in popCalls :
          /\ missingData(popRecord(i))
          /\ popRecord(i).geom = "ring"
          /\ run.pop[i].totalPopulation > 0

\* C6: a population area with geometry and poptot whose ring keeps fewer
\* than 3 vertices after conversion adds one to areasWithErrors and nothing
\* to totalPopulation and areasIntersected.
C6_ShortRingCounted ==
    run.ran =>
        \A i \in popCalls : shortRing(popRecord(i)) =>
            /\ run.pop[i + 1].areasWithErrors = run.pop[i].areasWithErrors + 1
            /\ run.pop[i + 1].totalPopulation = run.pop[i].totalPopulation
            /\ run.pop[i + 1].areasIntersected = run.pop[i].areasIntersected

\* The areas and shelters the totals are claimed to range over
validArea(a) ==
    /\ ~a.isNull /\ a.geom = "ring" /\ a.poptot # 0
    /\ Len(convertedCoords(a.ring)) >= 3
    /\ ~polygonThrows(convertedCoords(a.ring))

ringMeets(shape, ring) ==
    LET V == { ring[i] : i \in 1..Len(ring) } IN
    /\ \E v \in V : v.lat >= shape.bounds.s
    /\ \E v \in V : v.lat <= shape.bounds.n
    /\ \E v \in V : v.lng >= shape.bounds.w
    /\ \E v \in V : v.lng <= shape.bounds.e
    /\ shape.type = "circle" =>
          \E v \in V : withinRadius(v, shape.center, shape.radius)

areasMeeting(shape) ==
    { i \in 1..Len(populationData.items) :
        /\ validArea(popRecord(i))
        /\ ringMeets(shape, convertedCoords(popRecord(i).ring)) }

validBunker(b) ==
    ~b.isNull /\ b.geom = "point" /\ b.plasser # 0 /\ convertUTMToWGS84(b.at).ok

pointIn(shape, b) ==
    LET w == convertUTMToWGS84(b.at) IN
    IF shape.type = "circle"
    THEN withinRadius(latlng(w.lat, w.lng), shape.center, shape.radius)
    ELSE /\ shape.bounds.s <= w.lat /\ w.lat <= shape.bounds.n
         /\ shape.bounds.w <= w.lng /\ w.lng <= shape.bounds.e

bunkersIn(shape) ==
    { i \in 1..Len(bunkerData.items) :
        validBunker(bunkerData.items[i]) /\ pointIn(shape, bunkerData.items[i]) }

RECURSIVE sumPoptot(_)
sumPoptot(I) ==
    IF I = {} THEN 0
    ELSE LET i == CHOOSE j \in I : TRUE
         IN  popRecord(i).poptot + sumPoptot(I \ {i})

RECURSIVE sumPlasser(_)
sumPlasser(I) ==
    IF I = {} THEN 0
    ELSE LET i == CHOOSE j \in I : TRUE
         IN  bunkerData.items[i].plasser + sumPlasser(I \ {i})

\* C7: at the end of performAnalysis totalPopulation is the sum of poptot
\* over exactly the valid areas whose ring meets the shape, areasIntersected
\* their number, totalShelterCapacity the sum of plasser over exactly the
\* valid shelters inside the shape and bunkersInside their number.
C7_Totals ==
    completed =>
        /\ popFinal.totalPopulation = sumPoptot(areasMeeting(run.shape))
        /\ popFinal.areasIntersected = Cardinality(areasMeeting(run.shape))
        /\ bunkFinal.totalShelterCapacity = sumPlasser(bunkersIn(run.shape))
        /\ bunkFinal.bunkersInside = Cardinality(bunkersIn(run.shape))

C7_Witness ==
    /\ completed
    /\ run.shape.type = "circle"
    /\ popFinal.areasIntersected = 1
    /\ \E i \in popCalls :
          validArea(popRecord(i)) /\ i \notin areasMeeting(run.shape)
    /\ bunkFinal.bunkersInside = 1

\* C8: the coverage is 0 when totalPopulation is 0, 0 when the capacity is
\* 0, and otherwise capacity / population * 100, above 100 when the
\* capacity exceeds the population.
C8_Coverage ==
    completed =>
        LET P == popFinal.totalPopulation
            C == bunkFinal.totalShelterCapacity
            c == run.coverage
        IN  /\ c.den > 0
            /\ P = 0 => c.num = 0
            /\ (C = 0 /\ P > 0) => c.num = 0
            /\ (C > 0 /\ P > 0) => c.num * P = C * 100 * c.den
            /\ (C > P /\ P > 0) => c.num > 100 * c.den

C8_Witness ==
    /\ completed
    /\ popFinal.totalPopulation > 0
    /\ bunkFinal.totalShelterCapacity > popFinal.totalPopulation

Perms(n) == { f \in [1..n -> 1..n] : \A i, j \in 1..n : f[i] = f[j] => i = j }
permuted(d, f) == array([i \in 1..Len(d.items) |-> d.items[f[i]]])

\* What a run hands on: nothing when it raised, else its sums and counters
summary(r) ==
    IF r.raised
    THEN [raised |-> TRUE, pop |-> popStart, bunk |-> bunkStart,
          coverage |-> [num |-> 0, den |-> 1]]
    ELSE [raised |-> FALSE, pop |-> Last(r.pop), bunk |-> Last(r.bunk),
          coverage |-> r.coverage]

\* C9: for the shape of the last run, performAnalysis on any permutation
\* of the population dataset and of the shelter dataset gives the same
\* sums, coverage and counters.
C9_OrderIndependent ==
    run.ran =>
        \A f \in Perms(Len(populationData.items)) :
            \A g \in Perms(Len(bunkerData.items)) :
                summary(performAnalysis(run.shape, permuted(populationData, f),
                                        permuted(bunkerData, g)))
                    = summary(run)

C9_Witness ==
    /\ completed
    /\ Len(populationData.items) >= 2
    /\ populationData.items[1] # populationData.items[2]
    /\ popFinal.areasIntersected >= 1
    /\ popFinal.areasWithErrors >= 1

\* C10: the results panel is shown exactly when a current shape is held,
\* and a current shape is held exactly when the drawn-items group is not
\* empty.
C10_PanelIffShape ==
    /\ page.display = "block" <=> currentDrawnShape # NoLayer
    /\ currentDrawnShape # NoLayer <=> drawnItems # {}

====
